---------------------------- MODULE Spec2Model ----------------------------
(*************************************************************************)
(* A model of backend.go: the /trace handler (traceHandler) that runs a  *)
(* submitted program in a temporary directory under a 5 second deadline, *)
(* and analyzeTrace, which folds the parsed trace events into a          *)
(* goroutine graph.                                                      *)
(*************************************************************************)
EXTENDS Integers, Sequences, FiniteSets, Bags, TLC

\* ------------------------------------------------------------- bounds

\* Goroutine ids that occur in the modelled traces: 1..MaxTask.
MaxTask == 2

\* Longest event sequence drawn for the fold.
MaxEvents == 3

\* Longest event sequence drawn for the fold that is run twice.
MaxRefold == 2

TaskIds == 1..MaxTask

\* ---------------------------------------------------- trace events

EvGoCreate == "EvGoCreate"
EvGoStart == "EvGoStart"
EvGoEnd == "EvGoEnd"
\* Any event type the switch of analyzeTrace has no case for.
EvOther == "EvOther"

\* ev.Type, ev.G, ev.Args of a parsed event. Only EvGoCreate's Args[0] is read.
Event(type, g, args) == [Type |-> type, G |-> g, Args |-> args]

EventSet ==
    {Event(EvGoCreate, p, <<c>>) : p \in TaskIds, c \in TaskIds}
        \cup {Event(t, g, <<>>) : t \in {EvGoStart, EvGoEnd, EvOther}, g \in TaskIds}

SeqsUpTo(S, n) == UNION {[1..k -> S] : k \in 0..n}

\* The scenario of the specification's section 8, with goroutine ids 1, 2, 3.
ScenarioEvents ==
    << Event(EvGoCreate, 1, <<2>>), Event(EvGoStart, 2, <<>>),
       Event(EvGoCreate, 2, <<3>>), Event(EvGoEnd, 2, <<>>) >>

\* ---------------------------------------------------- analyzeTrace

\* Node{ID, Label, Type, State}; the label is fmt.Sprintf("goroutine %d", id),
\* kept as the pair of its constant text and the number.
Node(id, label, state) ==
    [ID |-> id, Label |-> label, Type |-> "goroutine", State |-> state]

MainLabel == <<"goroutine", 1, "(main)">>

GoLabel(id) == <<"goroutine", id>>

\* A faulty variant of SeedGoroutines: the map is made and the main goroutine is not put in.
SeedNothing == <<>>

\* goroutines := make(map); goroutines[1] = &Node{ID: 1, ..., State: "running"}
SeedGoroutines == 1 :> Node(1, MainLabel, "running")

\* graph := Graph{Nodes: [], Edges: []} and the seeded map.
InitAcc == [goroutines |-> SeedGoroutines, edges |-> <<>>]

\* A faulty variant of FreshAcc: the graph and the map are kept between calls.
StaleAcc(prev) == prev

\* The accumulator a call of analyzeTrace starts with, prev being what an earlier
\* call ended with: graph and goroutines are locals made anew by every call.
FreshAcc(prev) == InitAcc

\* A faulty variant of EnsureNode: the node is stored without the check for an existing one.
EnsureNodeOverwrite(gs, id) ==
    [i \in DOMAIN gs \cup {id} |->
        IF i = id THEN Node(id, GoLabel(id), "created") ELSE gs[i]]

\* if _, ok := goroutines[id]; !ok { goroutines[id] = &Node{..., State: "created"} }
EnsureNode(gs, id) ==
    IF id \in DOMAIN gs THEN gs ELSE gs @@ (id :> Node(id, GoLabel(id), "created"))

\* A faulty variant of SetState: a missing node is made from the start or end event.
SetStateSynthesize(gs, id, st) ==
    [i \in DOMAIN gs \cup {id} |->
        IF i = id THEN Node(id, GoLabel(id), st) ELSE gs[i]]

\* A faulty variant of SetState: a node that is "finished" stays so.
SetStateMonotonic(gs, id, st) ==
    IF id \in DOMAIN gs /\ gs[id].State # "finished"
    THEN [gs EXCEPT ![id].State = st]
    ELSE gs

\* if g, ok := goroutines[id]; ok { g.State = st }
SetState(gs, id, st) ==
    IF id \in DOMAIN gs THEN [gs EXCEPT ![id].State = st] ELSE gs

\* A faulty variant of OnGoCreate: an edge already in the list is not appended again.
OnGoCreateDedup(acc, ev) ==
    LET e == [From |-> ev.G, To |-> ev.Args[1]]
    IN [goroutines |-> EnsureNode(EnsureNode(acc.goroutines, ev.G), ev.Args[1]),
        edges |-> IF \E i \in DOMAIN acc.edges : acc.edges[i] = e
                  THEN acc.edges ELSE Append(acc.edges, e)]

\* A faulty variant of OnGoCreate: no node is made for a creator that has none.
OnGoCreateChildOnly(acc, ev) ==
    [goroutines |-> EnsureNode(acc.goroutines, ev.Args[1]),
     edges |-> Append(acc.edges, [From |-> ev.G, To |-> ev.Args[1]])]

\* A faulty variant of OnGoCreate: the edge runs from the new task to its creator.
OnGoCreateReversed(acc, ev) ==
    [goroutines |-> EnsureNode(EnsureNode(acc.goroutines, ev.G), ev.Args[1]),
     edges |-> Append(acc.edges, [From |-> ev.Args[1], To |-> ev.G])]

\* case trace.EvGoCreate
OnGoCreate(acc, ev) ==
    LET childID == ev.Args[1]
        parentID == ev.G
    IN [goroutines |-> EnsureNode(EnsureNode(acc.goroutines, parentID), childID),
        edges |-> Append(acc.edges, [From |-> parentID, To |-> childID])]

\* case trace.EvGoStart
OnGoStart(acc, ev) ==
    [acc EXCEPT !.goroutines = SetState(acc.goroutines, ev.G, "running")]

\* A faulty variant of OnGoEnd: the state written is that of the EvGoStart case.
OnGoEndRunning(acc, ev) ==
    [acc EXCEPT !.goroutines = SetState(acc.goroutines, ev.G, "running")]

\* case trace.EvGoEnd
OnGoEnd(acc, ev) ==
    [acc EXCEPT !.goroutines = SetState(acc.goroutines, ev.G, "finished")]

\* One iteration of the loop over result.Events: the switch on ev.Type.
ApplyEvent(acc, ev) ==
    CASE ev.Type = EvGoCreate -> OnGoCreate(acc, ev)
      [] ev.Type = EvGoStart -> OnGoStart(acc, ev)
      [] ev.Type = EvGoEnd -> OnGoEnd(acc, ev)
      [] OTHER -> acc

\* The accumulator after the first k events of evs.
RECURSIVE FoldUpTo(_, _)
FoldUpTo(evs, k) ==
    IF k = 0 THEN InitAcc ELSE ApplyEvent(FoldUpTo(evs, k - 1), evs[k])

\* A faulty variant of RangeOrders: an entry may be visited twice and another
\* not at all.
RangeOrdersWithRepeats(gs) == [1..Cardinality(DOMAIN gs) -> DOMAIN gs]

\* The orders in which "for _, node := range goroutines" may visit the map:
\* Go leaves the iteration order of a map unspecified.
RangeOrders(gs) ==
    {o \in [1..Cardinality(DOMAIN gs) -> DOMAIN gs] :
        \A i, j \in DOMAIN o : i # j => o[i] # o[j]}

\* graph.Nodes after the loop that appends *node for each visited entry.
NodesInOrder(gs, o) == [i \in DOMAIN o |-> gs[o[i]]]

VARIABLES
    events,      \* result.Events, the parsed trace handed to the fold
    idx,         \* how many events the loop has processed
    goroutines,  \* the map goroutines of the running fold
    edges,       \* graph.Edges of the running fold
    nodes,       \* graph.Nodes, filled after the loop
    fpc,         \* where the fold is: "loop", "collect", "done"
    run,         \* 1 for the first fold of the sequence, 2 for a second one
    first        \* the graph the first fold returned, once a second one runs

foldVars == <<events, idx, goroutines, edges, nodes, fpc, run, first>>

VARIABLES
    pc,      \* pc[r]: where the handler of request r is
    dir,     \* dir[r]: the local dir
    ctx,     \* ctx[r]: the context: "none", "active", "expired", "canceled"
    output,  \* output[r]: the local output, what CombinedOutput returned
    proc,    \* proc[r]: the "go run" subprocess and the program it runs
    fs,      \* the directories: the working directory and the temporary ones
    resp,    \* resp[r]: the response written
    hist     \* hist[r]: what has happened to request r (history, not program state)

handlerVars == <<pc, dir, ctx, output, proc, fs, resp, hist>>

vars == <<events, idx, goroutines, edges, nodes, fpc, run, first,
          pc, dir, ctx, output, proc, fs, resp, hist>>

NoGraph == [Nodes |-> <<>>, Edges |-> <<>>, none |-> TRUE]

\* analyzeTrace lines 141-149: a fresh graph and a fresh, seeded map.
StartFold ==
    /\ idx = 0
    /\ goroutines = InitAcc.goroutines
    /\ edges = InitAcc.edges
    /\ nodes = <<>>
    /\ fpc = "loop"

FoldInitFor(S) ==
    /\ events \in S
    /\ StartFold
    /\ run = 1
    /\ first = NoGraph

\* for _, ev := range result.Events { switch ev.Type ... }
ProcessEvent ==
    /\ fpc = "loop"
    /\ idx < Len(events)
    /\ LET acc == ApplyEvent([goroutines |-> goroutines, edges |-> edges],
                             events[idx + 1])
       IN /\ goroutines' = acc.goroutines
          /\ edges' = acc.edges
    /\ idx' = idx + 1
    /\ UNCHANGED <<events, nodes, fpc, run, first, handlerVars>>

\* The range loop ends when every event has been visited.
EndLoop ==
    /\ fpc = "loop"
    /\ idx = Len(events)
    /\ fpc' = "collect"
    /\ UNCHANGED <<events, idx, goroutines, edges, nodes, run, first, handlerVars>>

\* for _, node := range goroutines { graph.Nodes = append(graph.Nodes, *node) }
\* and the return of {"trace": graph}.
CollectNodes ==
    /\ fpc = "collect"
    /\ \E o \in RangeOrders(goroutines) : nodes' = NodesInOrder(goroutines, o)
    /\ fpc' = "done"
    /\ UNCHANGED <<events, idx, goroutines, edges, run, first, handlerVars>>

\* A second, independent call of analyzeTrace on the same events.
FoldAgain ==
    /\ fpc = "done"
    /\ run = 1
    /\ first' = [Nodes |-> nodes, Edges |-> edges, none |-> FALSE]
    /\ run' = 2
    /\ idx' = 0
    /\ LET acc == FreshAcc([goroutines |-> goroutines, edges |-> edges])
       IN /\ goroutines' = acc.goroutines
          /\ edges' = acc.edges
    /\ nodes' = <<>>
    /\ fpc' = "loop"
    /\ UNCHANGED <<events, handlerVars>>

FoldNext == ProcessEvent \/ EndLoop \/ CollectNodes

\* ---------------------------------------------------- traceHandler

\* Requests the server handles, each by its own call of traceHandler; the
\* calls run concurrently (net/http starts one goroutine per request).
\* NumReq requests arrive under Spec and LiveSpec, NumConc under ConcSpec.
NumReq == 1

NumConc == 2

Reqs == 1..NumReq

ConcReqs == 1..NumConc

AllReqs == Reqs \cup ConcReqs

\* The names ioutil.TempDir can give a new directory: it draws a random name
\* and takes one that does not exist yet.
TempNames == AllReqs

\* The directory the path "" names, the server's working directory: what dir
\* is when ioutil.TempDir fails and returns "".
CwdDir == 0

\* main.go of a directory: absent, or the body of the request that wrote it.
NoMain == [present |-> FALSE, code |-> 0]

MainOf(r) == [present |-> TRUE, code |-> r]

\* trace.out of a directory: absent, a file os.Open cannot open (the program
\* chose its mode), bytes trace.Parse rejects, or a trace that parses to the
\* events.
NoTrace == [present |-> FALSE, readable |-> FALSE, valid |-> FALSE, events |-> <<>>]

LockedTrace == [present |-> TRUE, readable |-> FALSE, valid |-> FALSE, events |-> <<>>]

BadTrace == [present |-> TRUE, readable |-> TRUE, valid |-> FALSE, events |-> <<>>]

TraceOf(evs) == [present |-> TRUE, readable |-> TRUE, valid |-> TRUE, events |-> evs]

\* What a traced program may leave in trace.out.
TraceFiles ==
    {LockedTrace, BadTrace, TraceOf(<<>>),
     TraceOf(<< Event(EvGoCreate, 1, <<2>>), Event(EvGoEnd, 2, <<>>) >>)}

NoDir == [exists |-> FALSE, owner |-> 0, main |-> NoMain, trace |-> NoTrace]

EmptyDir(r) == [exists |-> TRUE, owner |-> r, main |-> NoMain, trace |-> NoTrace]

\* A faulty variant of RemoveAll: the directory is left in place.
RemoveNothing(f, d) == f

\* os.RemoveAll(dir): the directory and what it holds are gone; for the path ""
\* it does nothing and returns nil.
RemoveAll(f, d) == IF d = CwdDir THEN f ELSE [f EXCEPT ![d] = NoDir]

\* A faulty variant of CtxDeadlineExceeded: the error compared with is context.Canceled.
CtxCanceled(c) == c = "canceled"

\* ctx.Err() == context.DeadlineExceeded
CtxDeadlineExceeded(c) == c = "expired"

\* A faulty variant of TraceMissing: the result of os.Stat is not looked at.
TraceNeverMissing(f, d) == FALSE

\* _, err := os.Stat(filepath.Join(dir, "trace.out")); os.IsNotExist(err)
TraceMissing(f, d) == ~(f[d].exists /\ f[d].trace.present)

\* A faulty variant of AnalyzeError: the error of trace.Parse is dropped and the
\* events parsed so far are folded.
AnalyzeErrorOpenOnly(f, d) ==
    IF ~(f[d].exists /\ f[d].trace.present /\ f[d].trace.readable)
    THEN "could not open trace file"
    ELSE "nil"

\* analyzeTrace up to the fold: os.Open and trace.Parse, either of which ends
\* the call with an error and no graph.
AnalyzeError(f, d) ==
    IF ~(f[d].exists /\ f[d].trace.present /\ f[d].trace.readable)
    THEN "could not open trace file"
    ELSE IF ~f[d].trace.valid THEN "failed to parse trace data"
    ELSE "nil"

NoGraphOut == [present |-> FALSE, Nodes |-> <<>>, Edges |-> <<>>]

\* The payloads traceHandler writes, by exit path.
Response(kind, status, out, detail, graph) ==
    [kind |-> kind, status |-> status, output |-> out, detail |-> detail,
     graph |-> graph]

NoResponse == Response("none", 0, "", "", NoGraphOut)

NoProc == [state |-> "none", orphan |-> FALSE, out |-> "", status |-> "none"]

NoHist ==
    [tempDirFailed |-> FALSE, writeFailed |-> FALSE, madeDir |-> FALSE,
     started |-> FALSE, exceeded |-> FALSE, killed |-> FALSE,
     artifactAtCheck |-> FALSE, statted |-> FALSE, decoded |-> FALSE,
     bodyRead |-> FALSE, ctxAtCheck |-> "none", waited |-> FALSE,
     existedAtStat |-> FALSE, fileAtDecode |-> NoTrace]

HandlerInit ==
    /\ pc = [r \in AllReqs |-> "start"]
    /\ dir = [r \in AllReqs |-> CwdDir]
    /\ ctx = [r \in AllReqs |-> "none"]
    /\ output = [r \in AllReqs |-> ""]
    /\ proc = [r \in AllReqs |-> NoProc]
    /\ fs = [d \in {CwdDir} \cup TempNames |->
                IF d = CwdDir THEN EmptyDir(0) ELSE NoDir]
    /\ resp = [r \in AllReqs |-> NoResponse]
    /\ hist = [r \in AllReqs |-> NoHist]

\* The return of traceHandler after "defer os.RemoveAll(dir)" (and, when it was
\* reached, "defer cancel()"): the deferred calls run, last one first.
Return(r, response, f) ==
    /\ resp' = [resp EXCEPT ![r] = response]
    /\ ctx' = [ctx EXCEPT ![r] = IF @ = "active" THEN "canceled" ELSE @]
    /\ fs' = RemoveAll(f, dir[r])
    /\ pc' = [pc EXCEPT ![r] = "done"]
    /\ UNCHANGED foldVars

\* code, err := ioutil.ReadAll(r.Body), err == nil
ReadBodyOk(r) ==
    /\ pc[r] = "start"
    /\ pc' = [pc EXCEPT ![r] = "tempdir"]
    /\ hist' = [hist EXCEPT ![r].bodyRead = TRUE]
    /\ UNCHANGED <<dir, ctx, output, proc, fs, resp, foldVars>>

\* ReadAll fails: http.Error(w, "Failed to read code", 400); nothing is deferred yet.
ReadBodyFails(r) ==
    /\ pc[r] = "start"
    /\ resp' = [resp EXCEPT ![r] =
                   Response("bad_request", 400, "", "Failed to read code", NoGraphOut)]
    /\ pc' = [pc EXCEPT ![r] = "done"]
    /\ UNCHANGED <<dir, ctx, output, proc, fs, hist, foldVars>>

\* dir, _ := ioutil.TempDir("", "gtrace"), succeeding: a new directory under a
\* name no existing directory has.
TempDirOk(r) ==
    /\ pc[r] = "tempdir"
    /\ \E d \in TempNames :
        /\ ~fs[d].exists
        /\ fs' = [fs EXCEPT ![d] = EmptyDir(r)]
        /\ dir' = [dir EXCEPT ![r] = d]
    /\ hist' = [hist EXCEPT ![r].madeDir = TRUE]
    /\ pc' = [pc EXCEPT ![r] = "write"]
    /\ UNCHANGED <<ctx, output, proc, resp, foldVars>>

\* dir, _ := ioutil.TempDir("", "gtrace"), failing: TempDir returns "" and an
\* error; the error is discarded and the handler goes on with dir == "".
TempDirFails(r) ==
    /\ pc[r] = "tempdir"
    /\ dir' = [dir EXCEPT ![r] = CwdDir]
    /\ hist' = [hist EXCEPT ![r].tempDirFailed = TRUE]
    /\ pc' = [pc EXCEPT ![r] = "write"]
    /\ UNCHANGED <<ctx, output, proc, fs, resp, foldVars>>

\* ioutil.WriteFile(filepath.Join(dir, "main.go"), code, 0644), err == nil
WriteFileOk(r) ==
    /\ pc[r] = "write"
    /\ fs[dir[r]].exists
    /\ fs' = [fs EXCEPT ![dir[r]].main = MainOf(r)]
    /\ pc' = [pc EXCEPT ![r] = "run"]
    /\ UNCHANGED <<dir, ctx, output, proc, resp, hist, foldVars>>

\* WriteFile fails: http.Error(w, "Failed to write temp file", 500); return
WriteFileFails(r) ==
    /\ pc[r] = "write"
    /\ hist' = [hist EXCEPT ![r].writeFailed = TRUE]
    /\ Return(r, Response("setup_error", 500, "", "Failed to write temp file",
                          NoGraphOut), fs)
    /\ UNCHANGED <<dir, output, proc, foldVars>>

\* ctx, cancel := context.WithTimeout(..., 5*time.Second); defer cancel();
\* cmd := exec.CommandContext(ctx, "go", "run", tmpFile); cmd.Dir = dir;
\* CombinedOutput starts the command and begins to wait for it.
StartCommand(r) ==
    /\ pc[r] = "run"
    /\ ctx' = [ctx EXCEPT ![r] = "active"]
    /\ proc' = [proc EXCEPT ![r] = [NoProc EXCEPT !.state = "building"]]
    /\ hist' = [hist EXCEPT ![r].started = TRUE]
    /\ pc' = [pc EXCEPT ![r] = "wait"]
    /\ UNCHANGED <<dir, output, fs, resp, foldVars>>

\* "go run" fails to build main.go: it prints the errors and exits non-zero.
BuildFails(r) ==
    /\ proc[r].state = "building"
    /\ proc' = [proc EXCEPT ![r] =
                   [state |-> "exited", orphan |-> FALSE, out |-> "build errors",
                    status |-> "nonzero"]]
    /\ UNCHANGED <<pc, dir, ctx, output, fs, resp, hist, foldVars>>

\* "go run" has built main.go and runs the program as its child process, which
\* inherits the pipe CombinedOutput reads.
BuildDone(r) ==
    /\ proc[r].state = "building"
    /\ proc' = [proc EXCEPT ![r].state = "executing"]
    /\ UNCHANGED <<pc, dir, ctx, output, fs, resp, hist, foldVars>>

\* The running program writes trace.out in its working directory, cmd.Dir.
WriteTrace(r) ==
    /\ proc[r].state = "executing" \/ proc[r].orphan
    /\ fs[dir[r]].exists
    /\ \E t \in TraceFiles : fs' = [fs EXCEPT ![dir[r]].trace = t]
    /\ UNCHANGED <<pc, dir, ctx, output, proc, resp, hist, foldVars>>

\* The program ends by itself and "go run" exits with its status.
ProgramExits(r) ==
    /\ proc[r].state = "executing"
    /\ \E st \in {"zero", "nonzero"} :
        proc' = [proc EXCEPT ![r] =
                    [state |-> "exited", orphan |-> FALSE, out |-> "program output",
                     status |-> st]]
    /\ UNCHANGED <<pc, dir, ctx, output, fs, resp, hist, foldVars>>

\* The 5 seconds of context.WithTimeout elapse before cancel() is called.
DeadlineFires(r) ==
    /\ ctx[r] = "active"
    /\ ctx' = [ctx EXCEPT ![r] = "expired"]
    /\ hist' = [hist EXCEPT ![r].exceeded =
                   proc[r].state \in {"building", "executing"}]
    /\ UNCHANGED <<pc, dir, output, proc, fs, resp, foldVars>>

\* exec.CommandContext: once ctx is done, os/exec kills the command's process,
\* the "go" tool. A program "go run" had started is not that process: it lives
\* on and keeps its end of the output pipe open.
KillOnDeadline(r) ==
    /\ ctx[r] = "expired"
    /\ proc[r].state \in {"building", "executing"}
    /\ proc' = [proc EXCEPT ![r] =
                   [state |-> "killed", orphan |-> proc[r].state = "executing",
                    out |-> "", status |-> "killed"]]
    /\ hist' = [hist EXCEPT ![r].killed = TRUE]
    /\ UNCHANGED <<pc, dir, ctx, output, fs, resp, foldVars>>

\* The program left behind by a killed "go run" ends by itself.
OrphanExits(r) ==
    /\ proc[r].orphan
    /\ proc' = [proc EXCEPT ![r].orphan = FALSE]
    /\ UNCHANGED <<pc, dir, ctx, output, fs, resp, hist, foldVars>>

\* output, _ := cmd.CombinedOutput() returns: the process has been waited for
\* and the pipe it wrote to has reached end of file, which it does when no
\* process holds the write end any more (Cmd.WaitDelay is zero).
WaitReturns(r) ==
    /\ pc[r] = "wait"
    /\ proc[r].state \in {"exited", "killed"}
    /\ ~proc[r].orphan
    /\ output' = [output EXCEPT ![r] = proc[r].out]
    /\ hist' = [hist EXCEPT ![r].waited = TRUE]
    /\ pc' = [pc EXCEPT ![r] = "checkctx"]
    /\ UNCHANGED <<dir, ctx, proc, fs, resp, foldVars>>

\* if ctx.Err() == context.DeadlineExceeded { 400, "Execution timed out ..." ; return }
RespondTimeout(r) ==
    /\ pc[r] = "checkctx"
    /\ CtxDeadlineExceeded(ctx[r])
    /\ hist' = [hist EXCEPT ![r].artifactAtCheck =
                                 fs[dir[r]].exists /\ fs[dir[r]].trace.present,
                             ![r].ctxAtCheck = ctx[r]]
    /\ Return(r, Response("timeout", 400, "guidance",
                          "Execution timed out after 5 seconds.", NoGraphOut), fs)
    /\ UNCHANGED <<dir, output, proc, foldVars>>

\* ctx.Err() is not DeadlineExceeded: the handler goes on to the artifact.
DeadlineNotExceeded(r) ==
    /\ pc[r] = "checkctx"
    /\ ~CtxDeadlineExceeded(ctx[r])
    /\ hist' = [hist EXCEPT ![r].artifactAtCheck =
                                 fs[dir[r]].exists /\ fs[dir[r]].trace.present,
                             ![r].ctxAtCheck = ctx[r]]
    /\ pc' = [pc EXCEPT ![r] = "stat"]
    /\ UNCHANGED <<dir, ctx, output, proc, fs, resp, foldVars>>

\* os.Stat(tracePath) says the file does not exist: 500, "trace.out not
\* generated", with string(output); return
RespondMissing(r) ==
    /\ pc[r] = "stat"
    /\ TraceMissing(fs, dir[r])
    /\ hist' = [hist EXCEPT ![r].statted = TRUE,
                             ![r].existedAtStat =
                                 fs[dir[r]].exists /\ fs[dir[r]].trace.present]
    /\ Return(r, Response("missing_artifact", 500, output[r],
                          "trace.out not generated", NoGraphOut), fs)
    /\ UNCHANGED <<dir, output, proc, foldVars>>

\* os.Stat(tracePath) finds the file.
TraceFound(r) ==
    /\ pc[r] = "stat"
    /\ ~TraceMissing(fs, dir[r])
    /\ hist' = [hist EXCEPT ![r].statted = TRUE,
                             ![r].existedAtStat =
                                 fs[dir[r]].exists /\ fs[dir[r]].trace.present]
    /\ pc' = [pc EXCEPT ![r] = "analyze"]
    /\ UNCHANGED <<dir, ctx, output, proc, fs, resp, foldVars>>

\* jsonData, err := analyzeTrace(tracePath); err != nil: 500, "Failed to
\* analyze trace.out", with err.Error(); return
RespondDecodeFailure(r) ==
    /\ pc[r] = "analyze"
    /\ AnalyzeError(fs, dir[r]) # "nil"
    /\ hist' = [hist EXCEPT ![r].decoded = TRUE,
                             ![r].fileAtDecode =
                                 IF fs[dir[r]].exists THEN fs[dir[r]].trace ELSE NoTrace]
    /\ Return(r, Response("decode_failure", 500, "", AnalyzeError(fs, dir[r]),
                          NoGraphOut), fs)
    /\ UNCHANGED <<dir, output, proc, foldVars>>

\* analyzeTrace returns the graph: json.NewEncoder(w).Encode(jsonData), status 200.
RespondSuccess(r) ==
    /\ pc[r] = "analyze"
    /\ AnalyzeError(fs, dir[r]) = "nil"
    /\ hist' = [hist EXCEPT ![r].decoded = TRUE,
                             ![r].fileAtDecode =
                                 IF fs[dir[r]].exists THEN fs[dir[r]].trace ELSE NoTrace]
    /\ LET evs == fs[dir[r]].trace.events
           acc == FoldUpTo(evs, Len(evs))
       IN \E o \in RangeOrders(acc.goroutines) :
            Return(r, Response("success", 200, "", "",
                               [present |-> TRUE,
                                Nodes |-> NodesInOrder(acc.goroutines, o),
                                Edges |-> acc.edges]), fs)
    /\ UNCHANGED <<dir, output, proc, foldVars>>

HandlerStep(r) ==
    \/ ReadBodyOk(r)
    \/ ReadBodyFails(r)
    \/ TempDirOk(r)
    \/ TempDirFails(r)
    \/ WriteFileOk(r)
    \/ WriteFileFails(r)
    \/ StartCommand(r)
    \/ WaitReturns(r)
    \/ RespondTimeout(r)
    \/ DeadlineNotExceeded(r)
    \/ RespondMissing(r)
    \/ TraceFound(r)
    \/ RespondDecodeFailure(r)
    \/ RespondSuccess(r)

\* What the subprocess and the program it runs do on their own.
ProgramStep(r) ==
    \/ BuildFails(r)
    \/ BuildDone(r)
    \/ WriteTrace(r)
    \/ ProgramExits(r)
    \/ OrphanExits(r)

\* ---------------------------------------------------- specifications

FoldIdle ==
    /\ events = <<>>
    /\ StartFold
    /\ run = 1
    /\ first = NoGraph

\* The handler and its subprocesses, for all requests.
Init == HandlerInit /\ FoldIdle

Next ==
    \E r \in Reqs :
        \/ HandlerStep(r)
        \/ ProgramStep(r)
        \/ DeadlineFires(r)
        \/ KillOnDeadline(r)

Spec == Init /\ [][Next]_vars

\* The same with NumConc requests in flight.
ConcNext ==
    \E r \in ConcReqs :
        \/ HandlerStep(r)
        \/ ProgramStep(r)
        \/ DeadlineFires(r)
        \/ KillOnDeadline(r)

ConcSpec == Init /\ [][ConcNext]_vars

\* The Go scheduler runs every handler that can take a step, the timer of a
\* context fires, and os/exec kills the process of a context that is done. No
\* fairness is stated for ProgramStep: a submitted program need not ever end.
Fairness ==
    \A r \in Reqs :
        /\ WF_vars(HandlerStep(r))
        /\ WF_vars(DeadlineFires(r))
        /\ WF_vars(KillOnDeadline(r))

LiveSpec == Init /\ [][Next]_vars /\ Fairness

\* The fold of analyzeTrace alone, over every event sequence within the bounds.
FoldInit ==
    /\ FoldInitFor(SeqsUpTo(EventSet, MaxEvents) \cup {ScenarioEvents})
    /\ HandlerInit

FoldSpec == FoldInit /\ [][FoldNext]_vars

\* The fold run twice on the same events.
RefoldInit == FoldInitFor(SeqsUpTo(EventSet, MaxRefold)) /\ HandlerInit

RefoldNext == FoldNext \/ FoldAgain

RefoldSpec == RefoldInit /\ [][RefoldNext]_vars

\* ---------------------------------------------------- properties

\* The events the loop has processed so far.
Processed == SubSeq(events, 1, idx)

Positions(evs, type, g) == {k \in DOMAIN evs : evs[k].Type = type /\ evs[k].G = g}

\* The TaskCreate events that name t as the new task.
CreatesOf(evs, t) ==
    {k \in DOMAIN evs : evs[k].Type = EvGoCreate /\ evs[k].Args[1] = t}

IdsOf(evs) ==
    {evs[k].G : k \in DOMAIN evs}
        \cup {evs[k].Args[1] : k \in {j \in DOMAIN evs : evs[j].Type = EvGoCreate}}

OutputDone == fpc = "done"

\* C1 (root presence): the accumulator holds node 1 before the first event and
\* after every event, and the output graph holds a node with id 1, for every
\* event sequence, the empty one included.
C1_RootPresence ==
    /\ 1 \in DOMAIN goroutines
    /\ OutputDone => \E i \in DOMAIN nodes : nodes[i].ID = 1

\* A finished fold of a non-empty sequence no event of which names id 1.
C1_Witness ==
    /\ OutputDone
    /\ events # <<>>
    /\ 1 \notin IdsOf(events)
    /\ \E i \in DOMAIN nodes : nodes[i].ID = 1

\* The pairs (creator, new task) of the TaskCreate events of evs, in order.
RECURSIVE CreatePairs(_)
CreatePairs(evs) ==
    IF evs = <<>> THEN <<>>
    ELSE LET last == evs[Len(evs)]
             rest == CreatePairs(SubSeq(evs, 1, Len(evs) - 1))
         IN IF last.Type = EvGoCreate
            THEN Append(rest, [From |-> last.G, To |-> last.Args[1]])
            ELSE rest

\* C2 (edge list equals the creation events): after every prefix the edge list
\* is the sequence of (creator, args[0]) of the TaskCreate events processed, in
\* event order, so its length is their number; the output is that of the whole
\* sequence.
C2_EdgesAreCreations ==
    /\ edges = CreatePairs(Processed)
    /\ Len(edges) = Cardinality({k \in 1..idx : events[k].Type = EvGoCreate})
    /\ fpc \in {"collect", "done"} => idx = Len(events)

\* A finished fold whose edge list holds the same pair twice.
C2_Witness ==
    /\ OutputDone
    /\ \E i, j \in DOMAIN edges : i < j /\ edges[i] = edges[j]

\* Well-formed input: every TaskStart of an id comes after a TaskCreate that
\* names the id as the new task, and every TaskEnd of an id comes after a
\* TaskStart of the id and after all of them.
WellFormed(evs) ==
    \A t \in IdsOf(evs) :
        /\ \A s \in Positions(evs, EvGoStart, t) :
              \E c \in CreatesOf(evs, t) : c < s
        /\ \A e \in Positions(evs, EvGoEnd, t) :
              /\ \E s \in Positions(evs, EvGoStart, t) : s < e
              /\ \A s \in Positions(evs, EvGoStart, t) : s < e

\* The state the claim gives the node of t after evs.
LifecycleState(evs, t) ==
    IF Positions(evs, EvGoEnd, t) # {} THEN "finished"
    ELSE IF Positions(evs, EvGoStart, t) # {} THEN "running"
    ELSE "created"

\* C3 as stated: for well-formed input the final state of every node of the
\* output graph is "finished" if a TaskEnd of its id occurred, else "running" if
\* a TaskStart occurred, else "created".
C3_StateUnderWellFormedInput ==
    (OutputDone /\ WellFormed(events)) =>
        \A i \in DOMAIN nodes :
            nodes[i].State = LifecycleState(events, nodes[i].ID)

\* C3 as amended: the same for every node but node 1, which is seeded "running"
\* and so is "running", not "created", when no TaskStart or TaskEnd of id 1
\* occurred.
C3_StateUnderWellFormedInputButRoot ==
    (OutputDone /\ WellFormed(events)) =>
        \A i \in DOMAIN nodes :
            LET id == nodes[i].ID
                want == LifecycleState(events, id)
            IN nodes[i].State = IF id = 1 /\ want = "created" THEN "running" ELSE want

\* A finished fold of a well-formed sequence with a created, started and ended task.
C3_Witness ==
    /\ OutputDone
    /\ WellFormed(events)
    /\ \E i \in DOMAIN nodes :
        /\ nodes[i].ID # 1
        /\ nodes[i].State = "finished"
        /\ Positions(events, EvGoStart, nodes[i].ID) # {}

\* C4 (no synthesis from start/end): a step that processes a TaskStart or
\* TaskEnd of an id with no node leaves the map and the edge list as they were,
\* and the set of node ids changes only in a step that processes a TaskCreate.
C4_NoSynthesis ==
    [][ /\ (DOMAIN goroutines' # DOMAIN goroutines) =>
              (idx' = idx + 1 /\ events[idx + 1].Type = EvGoCreate)
        /\ (/\ idx' = idx + 1
            /\ events[idx + 1].Type \in {EvGoStart, EvGoEnd}
            /\ events[idx + 1].G \notin DOMAIN goroutines) =>
              (goroutines' = goroutines /\ edges' = edges) ]_vars

\* The event just processed is a TaskStart or TaskEnd of an id that has no node.
C4_Witness ==
    /\ idx >= 1
    /\ events[idx].Type \in {EvGoStart, EvGoEnd}
    /\ events[idx].G \notin DOMAIN goroutines

NodePairs(ns) == {<<ns[i].ID, ns[i].State>> : i \in DOMAIN ns}

EdgeBag(es) ==
    LET range == {es[i] : i \in DOMAIN es}
    IN [e \in range |-> Cardinality({i \in DOMAIN es : es[i] = e})]

\* C5 (deterministic fold): a second, independent fold of the same events ends
\* with the same set of (node id, state) pairs and the same multiset of edges as
\* the first.
C5_DeterministicFold ==
    (run = 2 /\ OutputDone) =>
        /\ NodePairs(nodes) = NodePairs(first.Nodes)
        /\ EdgeBag(edges) = EdgeBag(first.Edges)

\* Two finished folds of a sequence with an edge whose node lists differ in order.
C5_Witness ==
    /\ run = 2
    /\ OutputDone
    /\ edges # <<>>
    /\ nodes # first.Nodes

\* C6 (timeout precedence): a request whose subprocess was still running when
\* the deadline elapsed gets no response but the timeout failure.
C6_TimeoutPrecedence ==
    \A r \in AllReqs :
        hist[r].exceeded =>
            /\ resp[r].kind \in {"none", "timeout"}
            /\ pc[r] = "done" => resp[r].kind = "timeout"

\* A timeout response given while trace.out existed in the request's directory.
C6_Witness ==
    \E r \in AllReqs :
        /\ hist[r].exceeded
        /\ resp[r].kind = "timeout"
        /\ hist[r].artifactAtCheck

C8_SetupFailureIsFatal ==
    \A r \in AllReqs :
        (hist[r].tempDirFailed \/ hist[r].writeFailed) =>
            /\ pc[r] \in {"write", "done"}
            /\ ~hist[r].started
            /\ pc[r] = "done" => resp[r].kind = "setup_error"

\* C9 (the deadline bounds the request): a request waiting for a subprocess
\* that was still running when the deadline elapsed eventually gets its timeout
\* response.
C9_DeadlineBoundsRequest ==
    \A r \in AllReqs :
        (pc[r] = "wait" /\ hist[r].exceeded) ~> (resp[r].kind = "timeout")

NoStartEndOfRoot(evs) ==
    Positions(evs, EvGoStart, 1) = {} /\ Positions(evs, EvGoEnd, 1) = {}

\* C10 (seeded root state): the fold starts with the one node 1, "running", and
\* no edges; the empty sequence gives exactly that node and no edge; and with no
\* TaskStart or TaskEnd of id 1 node 1 stays "running", also through TaskCreate
\* events that name 1 as creator or as new task.
C10_SeededRoot ==
    /\ idx = 0 =>
          /\ DOMAIN goroutines = {1}
          /\ goroutines[1] = Node(1, MainLabel, "running")
          /\ edges = <<>>
    /\ (OutputDone /\ events = <<>>) =>
          (nodes = <<Node(1, MainLabel, "running")>> /\ edges = <<>>)
    /\ NoStartEndOfRoot(Processed) => goroutines[1].State = "running"
    /\ (OutputDone /\ NoStartEndOfRoot(events)) =>
          \A i \in DOMAIN nodes : nodes[i].ID = 1 => nodes[i].State = "running"

\* A finished fold with TaskCreate events naming 1 as creator and as new task
\* and no TaskStart or TaskEnd of id 1.
C10_Witness ==
    /\ OutputDone
    /\ NoStartEndOfRoot(events)
    /\ \E k \in DOMAIN events : events[k].Type = EvGoCreate /\ events[k].G = 1
    /\ CreatesOf(events, 1) # {}
    /\ \E i \in DOMAIN nodes : nodes[i].ID = 1 /\ nodes[i].State = "running"

\* A request between the return of ioutil.TempDir and its own return: it has a
\* working directory and main.go and trace.out paths under it.
InFlight(r) == pc[r] \in {"write", "run", "wait", "checkctx", "stat", "analyze"}

\* The sandbox directories made for request r that still exist.
SandboxesOf(r) == {d \in TempNames : fs[d].exists /\ fs[d].owner = r}

\* C11 (sandbox isolation): no two in-flight requests use the same working
\* directory, so the main.go and trace.out paths of one never coincide with
\* those of another, and each request has at most one sandbox.
C11_SandboxIsolation ==
    /\ \A r1 \in AllReqs : \A r2 \in AllReqs :
          (r1 # r2 /\ InFlight(r1) /\ InFlight(r2)) => dir[r1] # dir[r2]
    /\ \A r \in AllReqs : Cardinality(SandboxesOf(r)) <= 1

\* The outcomes the specification lists for a request.
ListedOutcomes ==
    {"success", "setup_error", "timeout", "missing_artifact", "decode_failure"}

Done(r) == pc[r] = "done"

\* The handler's own finding at line 70: ctx.Err() was not DeadlineExceeded.
CheckedNotExceeded(r) == hist[r].ctxAtCheck \notin {"none", "expired"}

\* What C12 says of a request but for the set of its outcomes: a response is
\* written at the return and not before; a graph comes only with the success
\* outcome, after a deadline check that passed, an artifact that os.Stat found
\* and a file that opened and parsed; every other outcome has an error text and
\* no graph; the missing-artifact outcome is given exactly when the deadline
\* check passed and os.Stat then found no trace.out, and carries what the
\* process wrote.
OutcomeRules(r) ==
    /\ ~Done(r) => resp[r] = NoResponse
    /\ resp[r].graph.present =>
          /\ resp[r].kind = "success"
          /\ CheckedNotExceeded(r)
          /\ hist[r].existedAtStat
          /\ hist[r].fileAtDecode.readable /\ hist[r].fileAtDecode.valid
    /\ (Done(r) /\ resp[r].kind # "success") =>
          (~resp[r].graph.present /\ resp[r].detail # "")
    /\ resp[r].kind = "missing_artifact" <=>
          (Done(r) /\ CheckedNotExceeded(r) /\ hist[r].statted
               /\ ~hist[r].existedAtStat)
    /\ resp[r].kind = "missing_artifact" => resp[r].output = proc[r].out

NonZeroExitBeforeDeadline(r) ==
    /\ proc[r].state = "exited"
    /\ proc[r].status = "nonzero"
    /\ ~hist[r].exceeded

\* C13 (a non-zero exit is not fatal): a request whose subprocess exited with a
\* non-zero status before the deadline goes on to the artifact check, and its
\* outcome is decided by trace.out alone: success if the file exists and
\* decodes, the missing-artifact outcome with the captured output if it does not
\* exist.
C13_NonZeroExitNotFatal ==
    \A r \in AllReqs :
        (Done(r) /\ hist[r].waited /\ NonZeroExitBeforeDeadline(r)) =>
            /\ hist[r].statted
            /\ resp[r].kind = "success" <=>
                  /\ hist[r].existedAtStat
                  /\ hist[r].fileAtDecode.readable /\ hist[r].fileAtDecode.valid
            /\ ~hist[r].existedAtStat =>
                  /\ resp[r].kind = "missing_artifact"
                  /\ resp[r].output = proc[r].out

\* C14 (the TaskCreate step): a step that processes TaskCreate(creator, new)
\* puts a node in state "created" in the map for each of the two ids that has
\* none, leaves every node the map already held as it was, and appends the one
\* edge (creator, new) to the edge list; and the fold of the scenario
\* [TaskCreate(1,2), TaskStart(2), TaskCreate(2,3), TaskEnd(2)] returns node 1
\* "running", node 2 "finished", node 3 "created" and the edges (1,2), (2,3).
C14_TaskCreateStep ==
    [][ /\ (idx' = idx + 1 /\ events[idx + 1].Type = EvGoCreate) =>
              LET creator == events[idx + 1].G
                  new == events[idx + 1].Args[1]
              IN /\ DOMAIN goroutines' = DOMAIN goroutines \cup {creator, new}
                 /\ \A i \in DOMAIN goroutines : goroutines'[i] = goroutines[i]
                 /\ \A i \in {creator, new} \ DOMAIN goroutines :
                       goroutines'[i].ID = i /\ goroutines'[i].State = "created"
                 /\ edges' = Append(edges, [From |-> creator, To |-> new])
        /\ (fpc' = "done" /\ events = ScenarioEvents) =>
              /\ Len(nodes') = 3
              /\ NodePairs(nodes') =
                    {<<1, "running">>, <<2, "finished">>, <<3, "created">>}
              /\ edges' = <<[From |-> 1, To |-> 2], [From |-> 2, To |-> 3]>> ]_vars

\* The fold of the scenario has returned its graph.
C14_Witness ==
    /\ OutputDone
    /\ events = ScenarioEvents
    /\ Len(edges) = 2

Min(S) == CHOOSE x \in S : \A y \in S : x <= y

Max(S) == CHOOSE x \in S : \A y \in S : x >= y

\* The positions of the TaskCreate events that name t as creator or as new task.
NamedByCreate(evs, t) ==
    {k \in DOMAIN evs :
        evs[k].Type = EvGoCreate /\ (evs[k].G = t \/ evs[k].Args[1] = t)}

\* The position of the event that inserts node t: 0 for node 1, which is there
\* before the first event.
InsertedAt(evs, t) == IF t = 1 THEN 0 ELSE Min(NamedByCreate(evs, t))

\* The TaskStart and TaskEnd events of t that come while node t exists.
Applicable(evs, t) ==
    {k \in DOMAIN evs :
        /\ evs[k].Type \in {EvGoStart, EvGoEnd}
        /\ evs[k].G = t
        /\ k > InsertedAt(evs, t)}

\* The state the latest applicable event gives node t, or the state t was
\* inserted with when there is none.
LatestState(evs, t) ==
    IF Applicable(evs, t) = {}
    THEN IF t = 1 THEN "running" ELSE "created"
    ELSE IF evs[Max(Applicable(evs, t))].Type = EvGoStart THEN "running"
         ELSE "finished"

\* C15 (the latest applicable transition wins): after every prefix of the
\* events, and in the output graph, the state of every node is the one written
\* by the last TaskStart or TaskEnd of its id that came while the node existed
\* ("running" for a TaskStart, also after a TaskEnd; "finished" for a TaskEnd),
\* and the fold has a next step, whatever the order of the events, until it has
\* returned.
C15_LatestTransitionWins ==
    /\ \A t \in DOMAIN goroutines :
          goroutines[t].State = LatestState(Processed, t)
    /\ OutputDone =>
          \A i \in DOMAIN nodes : nodes[i].State = LatestState(events, nodes[i].ID)
    /\ ~OutputDone => ENABLED FoldNext

\* A returned graph with a node in state "running" whose TaskEnd came, while
\* the node existed, before its last TaskStart.
C15_Witness ==
    /\ OutputDone
    /\ \E i \in DOMAIN nodes :
          /\ nodes[i].State = "running"
          /\ \E e \in Applicable(events, nodes[i].ID) :
                /\ events[e].Type = EvGoEnd
                /\ \E s \in Applicable(events, nodes[i].ID) :
                      e < s /\ events[s].Type = EvGoStart

\* C16 (no artifact access after a timeout): for a request whose deadline
\* passed while its subprocess still ran, or whose deadline check found the
\* deadline exceeded, neither os.Stat of trace.out nor analyzeTrace is ever
\* performed; os.Stat is performed only after the wait for the subprocess has
\* returned and the deadline check has passed, and analyzeTrace only after
\* os.Stat has found the artifact.
C16_NoArtifactAccessAfterTimeout ==
    \A r \in AllReqs :
        /\ (hist[r].exceeded \/ hist[r].ctxAtCheck = "expired"
                \/ resp[r].kind = "timeout") =>
              (~hist[r].statted /\ ~hist[r].decoded /\ pc[r] \notin {"stat", "analyze"})
        /\ (hist[r].statted \/ pc[r] = "stat") =>
              (hist[r].waited /\ CheckedNotExceeded(r))
        /\ (hist[r].decoded \/ pc[r] = "analyze") =>
              (hist[r].statted /\ hist[r].existedAtStat)

\* A request answered with the timeout outcome whose program had left a
\* trace.out in its directory before it was killed.
C16_Witness ==
    \E r \in AllReqs :
        /\ Done(r)
        /\ hist[r].exceeded
        /\ hist[r].artifactAtCheck
        /\ resp[r].kind = "timeout"

\* The file analyzeTrace was given opened and parsed.
Decodable(t) == t.present /\ t.readable /\ t.valid

\* C17 (decode fails fast): when os.Open or trace.Parse fails on the artifact,
\* the request gets no graph, not even that of the events read so far, and ends
\* with the decode-failure outcome, which carries the text of the error.
C17_DecodeFailsFast ==
    \A r \in AllReqs :
        (hist[r].decoded /\ ~Decodable(hist[r].fileAtDecode)) =>
            /\ Done(r)
            /\ resp[r].kind = "decode_failure"
            /\ ~resp[r].graph.present
            /\ resp[r].detail =
                  IF hist[r].fileAtDecode.present /\ hist[r].fileAtDecode.readable
                  THEN "failed to parse trace data"
                  ELSE "could not open trace file"

\* A request whose program left a trace.out that trace.Parse rejects, answered
\* with the decode-failure outcome.
C17_Witness ==
    \E r \in AllReqs :
        /\ Done(r)
        /\ hist[r].decoded
        /\ hist[r].fileAtDecode = BadTrace
        /\ resp[r].kind = "decode_failure"

\* C18 (a timeout is reported only for a killed process): a request gets the
\* timeout outcome only if its subprocess was killed because the deadline had
\* passed, and a request whose subprocess ended by itself before the deadline
\* passed never gets it, wherever the deadline falls between that exit and the
\* handler's look at ctx.Err().
C18_TimeoutOnlyForKilled ==
    \A r \in AllReqs :
        /\ resp[r].kind = "timeout" => hist[r].killed
        /\ (Done(r) /\ proc[r].state = "exited" /\ ~hist[r].exceeded) =>
              resp[r].kind # "timeout"

\* C19 (edge endpoints are nodes): after every prefix of the events both ends
\* of every edge are keys of the map, and in the output graph both ends of every
\* edge are ids of nodes of that graph.
C19_EdgeEndpointsAreNodes ==
    /\ \A i \in DOMAIN edges :
          edges[i].From \in DOMAIN goroutines /\ edges[i].To \in DOMAIN goroutines
    /\ OutputDone =>
          \A i \in DOMAIN edges :
              /\ \E n \in DOMAIN nodes : nodes[n].ID = edges[i].From
              /\ \E n \in DOMAIN nodes : nodes[n].ID = edges[i].To

\* A returned graph with an edge whose creator got its node from the very
\* TaskCreate that made the edge.
C19_Witness ==
    /\ OutputDone
    /\ \E k \in DOMAIN events :
          /\ events[k].Type = EvGoCreate
          /\ events[k].G # 1
          /\ InsertedAt(events, events[k].G) = k
          /\ \E i \in DOMAIN edges : edges[i].From = events[k].G

\* The ids the TaskCreate events name, as creator or as new task.
CreateIds(evs) ==
    LET creates == {k \in DOMAIN evs : evs[k].Type = EvGoCreate}
    IN {evs[k].G : k \in creates} \cup {evs[k].Args[1] : k \in creates}

\* C20 (exact node set): after every prefix of the events the map holds, each
\* under its own id, a node for id 1 and for every id a TaskCreate so far named
\* as creator or as new task, and no other (so a node once inserted stays); the
\* output graph has one node for each of these ids, no other node, and no two
\* nodes with the same id.
C20_ExactNodeSet ==
    /\ DOMAIN goroutines = {1} \cup CreateIds(Processed)
    /\ \A t \in DOMAIN goroutines : goroutines[t].ID = t
    /\ OutputDone =>
          /\ {nodes[i].ID : i \in DOMAIN nodes} = {1} \cup CreateIds(events)
          /\ \A i, j \in DOMAIN nodes : i # j => nodes[i].ID # nodes[j].ID

\* A returned graph of several nodes for events that name an id other than 1
\* in more than one TaskCreate.
C20_Witness ==
    /\ OutputDone
    /\ Len(nodes) >= 2
    /\ \E t \in CreateIds(events) \ {1} :
          Cardinality(NamedByCreate(events, t)) >= 2

=============================================================================
